---- MODULE Spec2Model ----
(***************************************************************************)
(* State-machine model of the PrintInboxHub component                      *)
(* (src/src/PrintInboxHub2.jsx): the request collection, its persistence   *)
(* to the localStorage slot, the optimistic push / retry / pull against    *)
(* the optional sheet endpoint, and the detail drawer.                     *)
(*                                                                         *)
(* React's scheduling is modelled as follows.  A handler step is the       *)
(* synchronous part of the handler up to its next await, together with the *)
(* re-render its state updates cause.  The passive effects of a commit     *)
(* run as one later step (effectPending), and React flushes them before    *)
(* it processes any further update, so no handler step is taken while      *)
(* effects are pending.  An effect reads the values its render closed      *)
(* over: the effects of the first commit read hydrated = FALSE.            *)
(***************************************************************************)
EXTENDS Integers, Sequences, FiniteSets, Bags, TLC

(***************************************************************************)
(* Bounds of the model.                                                    *)
(***************************************************************************)
MaxCreates == 1     \* successful creates (uuid() calls) in one behaviour
MaxInFlight == 1    \* push requests in flight at once
MaxPulls == 1       \* pull requests in flight at once
MaxUpdates == 1     \* updateRequest calls in one behaviour

(***************************************************************************)
(* Values.                                                                 *)
(***************************************************************************)
Undefined == -1     \* JavaScript undefined, in a field that holds a date

priorities == <<"Low", "Normal", "High", "Urgent">>
statuses == <<"New", "In Progress", "Done", "Archived">>

\* The form states submitRequest is called in.  Strings are sequences of
\* characters; formDue 0 is the empty date input, a positive number a day
\* picked in it.
Form(n, d, due, pr) ==
    [formName |-> n, formDesc |-> d, formDue |-> due, formPriority |-> pr]
Forms ==
    { Form(<<>>, <<"a">>, 0, "Normal"),
      Form(<<" ">>, <<"a">>, 1, "Urgent"),
      Form(<<"a">>, <<>>, 0, "Normal"),
      Form(<<"a">>, <<" ", " ">>, 1, "Urgent"),
      Form(<<" ", "a">>, <<"a", " ">>, 0, "Normal"),
      Form(<<"a">>, <<" ", "a", " ">>, 1, "Urgent") }

\* The changes handed to updateRequest: the "Done" quick action of a card and
\* the drawer's status select.
ChangeSet == { [status |-> "Done"] }

VARIABLES
    SHEETS_ENDPOINT,  \* "" (no remote) or the endpoint URL; fixed by the build
    requests,         \* the collection (React state)
    hydrated,         \* readiness flag (React state)
    selected,         \* the drawer's record: <<>> (null) or <<record>>
    loadingSubmit,    \* the submit button is disabled while TRUE
    storage,          \* the localStorage slot STORAGE_KEY
    phase,            \* "mount": first commit done, its effects not yet run
    effectPending,    \* a commit changed [requests, hydrated]: persist effect due
    wrote,            \* setItem has been called since this mount (history)
    pushes,           \* bag of POSTs in flight: [id, src]
    pulls,            \* number of GETs in flight
    nextId,           \* source of uuid() and of the creation clock
    updates,          \* updateRequest calls so far
    toast,            \* messages pushToast emitted in the latest step
    search,           \* the search box (React state)
    statusFilter,     \* "All" or a status (React state)
    priorityFilter,   \* "All" or a priority (React state)
    sort,             \* the sort key (React state)
    clock,            \* the instant new Date() returns, in hours since the epoch
    tzOffset          \* local time minus UTC, in hours; fixed by the browser

vars == << SHEETS_ENDPOINT, requests, hydrated, selected, loadingSubmit,
           storage, phase, effectPending, wrote, pushes, pulls, nextId,
           updates, toast, search, statusFilter, priorityFilter, sort,
           clock, tzOffset >>

\* The list controls and the wall clock: no store operation changes them.
view == << search, statusFilter, priorityFilter, sort, clock, tzOffset >>

(***************************************************************************)
(* JavaScript helpers.                                                     *)
(***************************************************************************)
\* r.k, undefined when the key is absent.
Get(r, k) == IF k \in DOMAIN r THEN r[k] ELSE Undefined

\* { ...r, ...c }
Merge(r, c) ==
    [k \in DOMAIN r \cup DOMAIN c |-> IF k \in DOMAIN c THEN c[k] ELSE r[k]]

\* prev.map(f)
MapSeq(f(_), s) == [i \in 1..Len(s) |-> f(s[i])]

\* A trim that removes nothing.
trimNothing(s) == s

\* String.prototype.trim on a sequence of characters.
RECURSIVE TrimLeft(_)
TrimLeft(s) == IF s # <<>> /\ Head(s) = " " THEN TrimLeft(Tail(s)) ELSE s
RECURSIVE TrimRight(_)
TrimRight(s) ==
    IF s # <<>> /\ s[Len(s)] = " " THEN TrimRight(SubSeq(s, 1, Len(s) - 1))
    ELSE s
trim(s) == TrimRight(TrimLeft(s))

\* new Date(formDue).toISOString(): the instant of UTC midnight of that day,
\* in hours since the epoch.
toISOString(day) == day * 24

\* JSON.stringify of one record: a key whose value is undefined is dropped.
StringifyRecord(r) ==
    [k \in {j \in DOMAIN r : ~(j = "dueDate" /\ r[j] = Undefined)} |-> r[k]]

\* JSON.stringify(requests): the text held in the slot, as the kind of text
\* it is and, for an array, the rows it encodes.
JSONstringify(reqs) ==
    [kind |-> "array", rows |-> MapSeq(StringifyRecord, reqs)]

\* A stored text is one of: absent (getItem returns null), the empty string,
\* text JSON.parse throws on, JSON that is no array, or a JSON array.
StorageKinds == {"absent", "empty", "unparsable", "notarray", "array"}
Slot(kind) == [kind |-> kind, rows |-> <<>>]

\* JSON.parse(saved): whether it throws, whether the value is an array, and
\* the array.
JSONparse(saved) ==
    [threw |-> saved.kind = "unparsable",
     isArray |-> saved.kind = "array",
     rows |-> saved.rows]

\* uuid(): a value no earlier call in this browser returned.
uuid == nextId

\* A record an earlier session persisted (its id is an earlier uuid()).  With
\* no endpoint every persisted record is synced; with one, this one's push
\* had failed.
OldRow(endpoint) ==
    [id |-> 100, createdAt |-> 0, name |-> <<"a">>, description |-> <<"a">>,
     priority |-> "Normal", status |-> "New", devNotes |-> "",
     pinned |-> FALSE, synced |-> (endpoint = "")]

\* The slot at construction: any kind of text, an array being one an earlier
\* session wrote.
InitialStorage(endpoint) ==
    { Slot(k) : k \in StorageKinds \ {"array"} }
        \cup { [kind |-> "array", rows |-> << OldRow(endpoint) >>] }

(***************************************************************************)
(* The sheet's answers.                                                    *)
(***************************************************************************)
\* fetch(POST, mode: "no-cors") settles in one of two ways: it resolves, and
\* under no-cors whatever the server answered arrives as an opaque response,
\* or it rejects with a network error.
PushOutcomes == {"opaque", "rejected"}

\* The rows the sheet may hold: a row of another client, and the body the
\* earlier session posted for its record (synced: false), which reached the
\* sheet although the client saw the request fail.
ForeignRow ==
    [id |-> 200, createdAt |-> 0, name |-> <<"a">>,
     description |-> <<"a">>, dueDate |-> 24, priority |-> "Low",
     status |-> "In Progress", devNotes |-> "", pinned |-> FALSE,
     synced |-> FALSE]

\* The lists the GET may answer with: none, another client's row, the earlier
\* session's row with it, and the earlier session's row twice (a sheet that
\* adds a row for every POST it receives has a row for the create and a row
\* for each retry of a record).  The handler takes any list as it comes.
RowLists ==
    { <<>>, << ForeignRow >>, << OldRow("https://sheet"), ForeignRow >>,
      << OldRow("https://sheet"), OldRow("https://sheet") >> }

\* The GET settles as: fetch rejects; res.json() rejects; the body is null,
\* has no rows field, has a rows field that is no list; or has a list.
PullResponses ==
    { [kind |-> k, rows |-> <<>>] :
        k \in {"rejected", "unparsable", "null", "norows", "notlist"} }
        \cup { [kind |-> "rows", rows |-> rs] : rs \in RowLists }

(***************************************************************************)
(* The pure parts of the effects and handlers.                             *)
(***************************************************************************)
\* A load effect with no try/catch around JSON.parse: the exception escapes
\* and setHydrated is never reached.
loadEffectNoCatch(saved, reqs) ==
    IF saved.kind \in {"absent", "empty"}
    THEN [requests |-> reqs, hydrated |-> TRUE, threw |-> FALSE]
    ELSE IF saved.kind = "unparsable"
    THEN [requests |-> reqs, hydrated |-> FALSE, threw |-> TRUE]
    ELSE IF saved.kind = "array"
    THEN [requests |-> saved.rows, hydrated |-> TRUE, threw |-> FALSE]
    ELSE [requests |-> reqs, hydrated |-> TRUE, threw |-> FALSE]

\* The load effect: the array setRequests is called with, or reqs when it is
\* not called; threw is an exception escaping the effect.
loadEffect(saved, reqs) ==
    IF saved.kind \in {"absent", "empty"}
    THEN [requests |-> reqs, hydrated |-> TRUE, threw |-> FALSE]
    ELSE LET parsed == JSONparse(saved) IN
         IF parsed.threw
         THEN [requests |-> reqs, hydrated |-> TRUE, threw |-> FALSE]
         ELSE IF parsed.isArray
         THEN [requests |-> parsed.rows, hydrated |-> TRUE, threw |-> FALSE]
         ELSE [requests |-> reqs, hydrated |-> TRUE, threw |-> FALSE]

\* A persist effect that writes the first collection it sees hydrated and
\* none after it.
persistEffectOnce(h, reqs, saved, w) ==
    IF ~h \/ w THEN [storage |-> saved, wrote |-> w]
    ELSE [storage |-> JSONstringify(reqs), wrote |-> TRUE]

\* A persist effect that writes whether or not the store is hydrated.
persistEffectUngated(h, reqs, saved, w) ==
    [storage |-> JSONstringify(reqs), wrote |-> TRUE]

\* The persist effect, run with the hydrated and requests its render closed
\* over: the slot and the write flag afterwards.
persistEffect(h, reqs, saved, w) ==
    IF ~h THEN [storage |-> saved, wrote |-> w]
    ELSE [storage |-> JSONstringify(reqs), wrote |-> TRUE]

\* A record built with synced: false whatever the configuration.
newReqUnsynced(id, now, formName, formDesc, formDue, formPriority, endpoint) ==
    [id |-> id, createdAt |-> now, name |-> trim(formName),
     description |-> trim(formDesc),
     dueDate |-> IF formDue # 0 THEN toISOString(formDue) ELSE Undefined,
     priority |-> formPriority, status |-> "New", devNotes |-> "",
     pinned |-> FALSE, synced |-> FALSE]

\* The record submitRequest builds.
newReq(id, now, formName, formDesc, formDue, formPriority, endpoint) ==
    [id |-> id,
     createdAt |-> now,
     name |-> trim(formName),
     description |-> trim(formDesc),
     dueDate |-> IF formDue # 0 THEN toISOString(formDue) ELSE Undefined,
     priority |-> formPriority,
     status |-> "New",
     devNotes |-> "",
     pinned |-> FALSE,
     synced |-> (endpoint = "")]

\* An insertion at the end: [...prev, newReq].
append(r, prev) == prev \o << r >>

\* setRequests((prev) => [newReq, ...prev])
prepend(r, prev) == << r >> \o prev

\* A completion that writes back the record as it was posted, its status
\* included: prev.map((r) => (r.id === id ? { ...newReq, synced: v } : r)).
markSyncedStale(prev, id, v) ==
    LET f(r) == IF r.id = id
                THEN Merge(r, [synced |-> v, status |-> "New"]) ELSE r
    IN  MapSeq(f, prev)

\* A merge that writes synced: true in the catch block too.
markSyncedAlways(prev, id, v) ==
    LET f(r) == IF r.id = id THEN Merge(r, [synced |-> TRUE]) ELSE r
    IN  MapSeq(f, prev)

\* A merge that forgets the id test: prev.map((r) => ({ ...r, synced: v })).
markSyncedAll(prev, id, v) ==
    LET f(r) == Merge(r, [synced |-> v])
    IN  MapSeq(f, prev)

\* prev.map((r) => (r.id === id ? { ...r, synced: v } : r))
markSynced(prev, id, v) ==
    LET f(r) == IF r.id = id THEN Merge(r, [synced |-> v]) ELSE r
    IN  MapSeq(f, prev)

\* A merge that forgets the id test: prev.map((r) => ({ ...r, ...changes })).
mergeChangesAll(prev, id, changes) ==
    LET f(r) == Merge(r, changes)
    IN  MapSeq(f, prev)

\* prev.map((r) => (r.id === id ? { ...r, ...changes } : r))
mergeChanges(prev, id, changes) ==
    LET f(r) == IF r.id = id THEN Merge(r, changes) ELSE r
    IN  MapSeq(f, prev)

\* (prev) => (prev && prev.id === id ? { ...prev, ...changes } : prev)
mergeSelected(prev, id, changes) ==
    IF prev # <<>> /\ prev[1].id = id THEN << Merge(prev[1], changes) >>
    ELSE prev

\* A refresh with no Array.isArray test: a rows value that is no list is
\* mapped as if it were one, and yields nothing.
refreshResultNoListTest(resp) ==
    IF resp.kind \in {"rejected", "unparsable", "null", "norows"}
    THEN [threw |-> TRUE, rows |-> <<>>]
    ELSE LET f(r) == Merge(r, [synced |-> TRUE])
         IN  [threw |-> FALSE, rows |-> MapSeq(f, resp.rows)]

\* refreshFromSheet's try block: whether it throws, and the collection it
\* sets otherwise.
refreshResult(resp) ==
    IF resp.kind \in {"rejected", "unparsable"}
    THEN [threw |-> TRUE, rows |-> <<>>]
    ELSE IF resp.kind \in {"null", "norows", "notlist"}
    THEN [threw |-> TRUE, rows |-> <<>>]
    ELSE LET f(r) == Merge(r, [synced |-> TRUE])
         IN  [threw |-> FALSE, rows |-> MapSeq(f, resp.rows)]

Ids(reqs) == { reqs[i].id : i \in 1..Len(reqs) }

(***************************************************************************)
(* Initial state: the component has rendered once (useState initial        *)
(* values); the effects of that first commit have not run yet.             *)
(***************************************************************************)
Init ==
    /\ SHEETS_ENDPOINT \in {"", "https://sheet"}
    /\ requests = <<>>
    /\ hydrated = FALSE
    /\ selected = <<>>
    /\ loadingSubmit = FALSE
    /\ storage \in InitialStorage(SHEETS_ENDPOINT)
    /\ phase = "mount"
    /\ effectPending = FALSE
    /\ wrote = FALSE
    /\ pushes = EmptyBag
    /\ pulls = 0
    /\ nextId = 1
    /\ updates = 0
    /\ toast = <<>>
    /\ search = <<>>
    /\ statusFilter = "All"
    /\ priorityFilter = "All"
    /\ sort = "newest"
    /\ clock = 0
    /\ tzOffset = 0

\* A handler or a promise continuation runs only once the effects of the
\* previous commit have been flushed.
Idle == phase = "ready" /\ ~effectPending

InFlight == BagCardinality(pushes)
Push(id, src) == SetToBag({ [id |-> id, src |-> src] })

(***************************************************************************)
(* Effects.                                                                *)
(***************************************************************************)
\* The effects of the first commit, in declaration order: the load effect,
\* then the persist effect with the first render's hydrated and requests.
MountEffects ==
    /\ phase = "mount"
    /\ LET loaded == loadEffect(storage, requests)
           saved == persistEffect(hydrated, requests, storage, wrote)
       IN  /\ requests' = loaded.requests
           /\ hydrated' = (hydrated \/ loaded.hydrated)
           /\ phase' = IF loaded.threw THEN "crashed" ELSE "ready"
           /\ storage' = saved.storage
           /\ wrote' = saved.wrote
    /\ effectPending' = TRUE
    /\ toast' = <<>>
    /\ UNCHANGED << SHEETS_ENDPOINT, selected, loadingSubmit, pushes, pulls,
                    nextId, updates >>
    /\ UNCHANGED view

\* The persist effect of a later commit ([requests, hydrated] changed).
PersistEffectRun ==
    /\ phase = "ready"
    /\ effectPending
    /\ LET saved == persistEffect(hydrated, requests, storage, wrote)
       IN  /\ storage' = saved.storage
           /\ wrote' = saved.wrote
    /\ effectPending' = FALSE
    /\ UNCHANGED << SHEETS_ENDPOINT, requests, hydrated, selected,
                    loadingSubmit, phase, pushes, pulls, nextId, toast, updates >>
    /\ UNCHANGED view

(***************************************************************************)
(* Handlers.                                                               *)
(***************************************************************************)
\* submitRequest up to its await (or to its return when it has none).
submitRequest(formName, formDesc, formDue, formPriority) ==
    /\ Idle
    /\ ~loadingSubmit
    /\ IF trim(formName) = <<>>
       THEN /\ toast' = << "Name is required" >>
            /\ UNCHANGED << requests, loadingSubmit, effectPending, pushes,
                            nextId, updates >>
       ELSE IF trim(formDesc) = <<>>
       THEN /\ toast' = << "Description is required" >>
            /\ UNCHANGED << requests, loadingSubmit, effectPending, pushes,
                            nextId, updates >>
       ELSE /\ nextId <= MaxCreates
            /\ SHEETS_ENDPOINT # "" => InFlight < MaxInFlight
            /\ requests' =
                   prepend(newReq(uuid, nextId, formName, formDesc, formDue,
                                  formPriority, SHEETS_ENDPOINT), requests)
            /\ nextId' = nextId + 1
            /\ toast' = << "Request added" >>
            /\ effectPending' = TRUE
            /\ IF SHEETS_ENDPOINT = ""
               THEN /\ loadingSubmit' = FALSE
                    /\ pushes' = pushes
               ELSE /\ loadingSubmit' = TRUE
                    /\ pushes' = pushes (+) Push(uuid, "create")
    /\ UNCHANGED << SHEETS_ENDPOINT, hydrated, selected, storage, phase,
                    wrote, pulls, updates >>
    /\ UNCHANGED view

\* submitRequest after its await: the POST settled.
submitSettled(p, outcome) ==
    /\ Idle
    /\ BagIn(p, pushes) /\ p.src = "create"
    /\ pushes' = pushes (-) SetToBag({p})
    /\ IF outcome = "opaque"
       THEN /\ requests' = markSynced(requests, p.id, TRUE)
            /\ toast' = <<>>
       ELSE /\ requests' = markSynced(requests, p.id, FALSE)
            /\ toast' = << "Failed to sync. You can retry." >>
    /\ loadingSubmit' = FALSE
    /\ effectPending' = TRUE
    /\ UNCHANGED << SHEETS_ENDPOINT, hydrated, selected, storage, phase,
                    wrote, pulls, nextId, updates >>
    /\ UNCHANGED view

\* retrySync up to its await.  The Retry button is rendered for a record
\* that is not synced when an endpoint is set; with no endpoint the handler
\* is exercised for its early return.
retrySync(req) ==
    /\ Idle
    /\ SHEETS_ENDPOINT # "" => ~req.synced
    /\ IF SHEETS_ENDPOINT = ""
       THEN pushes' = pushes
       ELSE /\ InFlight < MaxInFlight
            /\ pushes' = pushes (+) Push(req.id, "retry")
    /\ toast' = <<>>
    /\ UNCHANGED << SHEETS_ENDPOINT, requests, hydrated, selected,
                    loadingSubmit, storage, phase, effectPending, wrote,
                    pulls, nextId, updates >>
    /\ UNCHANGED view

\* retrySync after its await.
retrySettled(p, outcome) ==
    /\ Idle
    /\ BagIn(p, pushes) /\ p.src = "retry"
    /\ pushes' = pushes (-) SetToBag({p})
    /\ IF outcome = "opaque"
       THEN /\ requests' = markSynced(requests, p.id, TRUE)
            /\ toast' = << "Synced" >>
            /\ effectPending' = TRUE
       ELSE /\ toast' = << "Sync failed" >>
            /\ UNCHANGED << requests, effectPending, updates >>
    /\ UNCHANGED << SHEETS_ENDPOINT, hydrated, selected, loadingSubmit,
                    storage, phase, wrote, pulls, nextId, updates >>
    /\ UNCHANGED view

\* refreshFromSheet up to its await.
refreshFromSheet ==
    /\ Idle
    /\ IF SHEETS_ENDPOINT = ""
       THEN /\ toast' = << "Add SHEETS_ENDPOINT to enable refresh" >>
            /\ pulls' = pulls
       ELSE /\ pulls < MaxPulls
            /\ pulls' = pulls + 1
            /\ toast' = <<>>
    /\ UNCHANGED << SHEETS_ENDPOINT, requests, hydrated, selected,
                    loadingSubmit, storage, phase, effectPending, wrote,
                    pushes, nextId, updates >>
    /\ UNCHANGED view

\* refreshFromSheet after its awaits: the GET settled with resp.
refreshSettled(resp) ==
    /\ Idle
    /\ pulls > 0
    /\ pulls' = pulls - 1
    /\ LET res == refreshResult(resp)
       IN  IF res.threw
           THEN /\ toast' = << "Refresh failed" >>
                /\ UNCHANGED << requests, effectPending, updates >>
           ELSE /\ requests' = res.rows
                /\ toast' = << "Inbox refreshed" >>
                /\ effectPending' = TRUE
    /\ UNCHANGED << SHEETS_ENDPOINT, hydrated, selected, loadingSubmit,
                    storage, phase, wrote, pushes, nextId, updates >>
    /\ UNCHANGED view

\* updateRequest(id, changes), called from a card or from the drawer.
updateRequest(id, changes) ==
    /\ Idle
    /\ updates < MaxUpdates
    /\ updates' = updates + 1
    /\ requests' = mergeChanges(requests, id, changes)
    /\ selected' = mergeSelected(selected, id, changes)
    /\ effectPending' = TRUE
    /\ toast' = <<>>
    /\ UNCHANGED << SHEETS_ENDPOINT, hydrated, loadingSubmit, storage, phase,
                    wrote, pushes, pulls, nextId >>
    /\ UNCHANGED view

\* A card is clicked: setSelected(req).
selectRequest(req) ==
    /\ Idle
    /\ selected # << req >>
    /\ selected' = << req >>
    /\ toast' = <<>>
    /\ UNCHANGED << SHEETS_ENDPOINT, requests, hydrated, loadingSubmit,
                    storage, phase, effectPending, wrote, pushes, pulls,
                    nextId, updates >>
    /\ UNCHANGED view

\* The drawer is closed: setSelected(null).
closeDrawer ==
    /\ Idle
    /\ selected # <<>>
    /\ selected' = <<>>
    /\ toast' = <<>>
    /\ UNCHANGED << SHEETS_ENDPOINT, requests, hydrated, loadingSubmit,
                    storage, phase, effectPending, wrote, pushes, pulls,
                    nextId, updates >>
    /\ UNCHANGED view

Rendered == { requests[i] : i \in 1..Len(requests) }

\* The ids updateRequest is called with: a rendered card's, or the drawer's.
UpdateIds == Ids(requests) \cup Ids(selected)

Next ==
    \/ MountEffects
    \/ PersistEffectRun
    \/ \E f \in Forms :
          submitRequest(f.formName, f.formDesc, f.formDue, f.formPriority)
    \/ \E p \in BagToSet(pushes), o \in PushOutcomes : submitSettled(p, o)
    \/ \E req \in Rendered : retrySync(req)
    \/ \E p \in BagToSet(pushes), o \in PushOutcomes : retrySettled(p, o)
    \/ refreshFromSheet
    \/ \E resp \in PullResponses : refreshSettled(resp)
    \/ \E id \in UpdateIds, c \in ChangeSet : updateRequest(id, c)

\* The store's operations: the collection, its persistence and its sync.
Spec == Init /\ [][Next]_vars

\* The store's operations and the detail drawer's.
NextDrawer ==
    \/ Next
    \/ \E req \in Rendered : selectRequest(req)
    \/ closeDrawer

SpecDrawer == Init /\ [][NextDrawer]_vars

(***************************************************************************)
(* Vocabulary of the properties.                                           *)
(***************************************************************************)
\* A string with nothing but whitespace in it.
IsBlank(s) == \A i \in 1..Len(s) : s[i] = " "

\* The step is submitRequest called in form state f.
Submits(f) ==
    submitRequest(f.formName, f.formDesc, f.formDue, f.formPriority)

\* The positions of the records with this id.
At(reqs, id) == { i \in 1..Len(reqs) : reqs[i].id = id }

\* Every record of the collection is marked synced.
AllSynced(reqs) == \A i \in 1..Len(reqs) : reqs[i].synced

\* The step calls setItem.
Writes == (wrote' /\ ~wrote) \/ storage' # storage

(***************************************************************************)
(* C1.  The slot is never written before the load effect has run and its   *)
(* result has been applied: every write happens in a step whose render saw *)
(* hydrated = TRUE after the mount effects, it writes the collection of    *)
(* that render, and the first write over a stored array writes that array  *)
(* back (the empty initial collection is never saved over it).             *)
(***************************************************************************)
C1_SaveOnlyAfterLoad ==
    [][ Writes =>
          /\ hydrated
          /\ phase = "ready"
          /\ storage' = JSONstringify(requests)
          /\ (storage.kind = "array" /\ ~wrote) => storage'.rows = storage.rows
      ]_vars

\* The stored record was written back and a newer record saved with it.
C1_Witness ==
    /\ wrote
    /\ storage.kind = "array"
    /\ Len(storage.rows) = 2
    /\ storage.rows[2].id = 100
    /\ storage.rows[1].id = 1

(***************************************************************************)
(* C2.  submitRequest with a name or a description that is blank fails     *)
(* with a validation toast and changes nothing: the collection is the      *)
(* same, no id is consumed and no push is started, with or without an      *)
(* endpoint.                                                               *)
(***************************************************************************)
C2_BlankCreateRejected ==
    [][ \A f \in Forms :
          (Submits(f) /\ (IsBlank(f.formName) \/ IsBlank(f.formDesc))) =>
              /\ requests' = requests
              /\ pushes' = pushes
              /\ nextId' = nextId
              /\ loadingSubmit' = loadingSubmit
              /\ toast' \in { << "Name is required" >>,
                               << "Description is required" >> }
      ]_vars

\* A validation error was reported over a non-empty collection, with an
\* endpoint set.
C2_Witness ==
    /\ toast = << "Description is required" >>
    /\ SHEETS_ENDPOINT # ""
    /\ Len(requests) > 0

(***************************************************************************)
(* C3.  A successful submitRequest yields the new record followed by the   *)
(* previous collection, unchanged and in its order; the new record has an  *)
(* id no record had, status New, empty devNotes, pinned false, the         *)
(* priority of the form, and synced exactly when no endpoint is set.       *)
(***************************************************************************)
C3_CreatePrepends ==
    [][ \A f \in Forms :
          (Submits(f) /\ ~IsBlank(f.formName) /\ ~IsBlank(f.formDesc)) =>
              /\ Len(requests') = Len(requests) + 1
              /\ Tail(requests') = requests
              /\ Head(requests').id \notin Ids(requests) \cup Ids(selected)
              /\ Head(requests').status = "New"
              /\ Head(requests').devNotes = ""
              /\ Head(requests').pinned = FALSE
              /\ Head(requests').priority = f.formPriority
              /\ Head(requests').synced = (SHEETS_ENDPOINT = "")
      ]_vars

\* A record was created in front of two earlier records.
C3_Witness ==
    /\ Len(requests) = 3
    /\ requests[1].id = 1
    /\ toast = << "Request added" >>

(***************************************************************************)
(* Vocabulary of the sync properties.                                      *)
(***************************************************************************)
\* q is r with synced set to v and every other field as in r.
SameButSynced(q, r, v) ==
    /\ DOMAIN q = DOMAIN r \cup {"synced"}
    /\ q.synced = v
    /\ \A k \in DOMAIN r \ {"synced"} : q[k] = r[k]

\* The step is the completion of the GET with a list of rows.
PullSucceeds == \E resp \in PullResponses : resp.kind = "rows" /\ refreshSettled(resp)

\* The step is the completion of a POST for this id.
PushSettlesFor(id) ==
    \E p \in BagToSet(pushes), o \in PushOutcomes :
        p.id = id /\ (submitSettled(p, o) \/ retrySettled(p, o))

\* The step puts one more POST p in flight.
Starts(p) == CopiesIn(p, pushes') > CopiesIn(p, pushes)

\* Every POST the step starts is the one of a create or of a retry of that
\* record.
OnlyCreateOrRetryStartsPush ==
    \A p \in BagToSet(pushes') :
        Starts(p) =>
            \/ /\ p.src = "create"
               /\ \E f \in Forms : Submits(f)
               /\ nextId' = nextId + 1
               /\ p.id = Head(requests').id
            \/ /\ p.src = "retry"
               /\ \E req \in Rendered : req.id = p.id /\ retrySync(req)

(***************************************************************************)
(* C4 as stated.  A pull that succeeds leaves the collection equal to the  *)
(* remote rows; a pull that fails leaves the collection as it was and      *)
(* reports the failure.                                                    *)
(***************************************************************************)
C4_PullYieldsExactlyRows ==
    [][ \A resp \in PullResponses :
          refreshSettled(resp) =>
              IF resp.kind = "rows"
              THEN requests' = resp.rows
              ELSE requests' = requests /\ toast' = << "Refresh failed" >>
      ]_vars

(***************************************************************************)
(* C4 as amended.  A pull that succeeds leaves the collection equal to the *)
(* remote rows, in their order, each with synced set to true and its other *)
(* fields as received (a full overwrite); a pull that fails for any of the *)
(* listed reasons leaves the collection as it was and reports the failure. *)
(***************************************************************************)
C4_PullOverwrites ==
    [][ \A resp \in PullResponses :
          refreshSettled(resp) =>
              IF resp.kind = "rows"
              THEN /\ Len(requests') = Len(resp.rows)
                   /\ \A i \in 1..Len(resp.rows) :
                         SameButSynced(requests'[i], resp.rows[i], TRUE)
                   /\ toast' = << "Inbox refreshed" >>
              ELSE /\ requests' = requests
                   /\ ~effectPending'
                   /\ toast' = << "Refresh failed" >>
      ]_vars

\* A pull succeeded and the record created locally did not survive it.
C4_Witness ==
    /\ toast = << "Inbox refreshed" >>
    /\ nextId = 2
    /\ 1 \notin Ids(requests)
    /\ Len(requests) = 2

C6_OpaqueResponseIsFailure ==
    [][ \A p \in BagToSet(pushes), o \in PushOutcomes :
          (submitSettled(p, o) \/ retrySettled(p, o)) =>
              \A i \in At(requests', p.id) : ~requests'[i].synced
      ]_vars

(***************************************************************************)
(* C7 as stated.  No push is started except by a create or by a retry of   *)
(* that record, and a record that is not synced stays so through every     *)
(* step (updates, other records' creates and retries, pulls) other than    *)
(* the completion of a push for that record.                               *)
(***************************************************************************)
C7_UnsyncedUntilRetry ==
    [][ /\ OnlyCreateOrRetryStartsPush
        /\ \A i \in 1..Len(requests) :
              (~requests[i].synced /\ ~PushSettlesFor(requests[i].id)) =>
                  \A j \in At(requests', requests[i].id) :
                      ~requests'[j].synced
      ]_vars

(***************************************************************************)
(* C7 as amended.  No push is started except by a create or by a retry of  *)
(* that record, and a record that is not synced stays in the collection    *)
(* and stays not synced through every step other than the completion of a *)
(* push for that record and a successful pull; a successful pull replaces  *)
(* the collection and marks every row synced = true.                       *)
(***************************************************************************)
C7_UnsyncedUntilRetryOrPull ==
    [][ /\ OnlyCreateOrRetryStartsPush
        /\ PullSucceeds => AllSynced(requests')
        /\ \A i \in 1..Len(requests) :
              (/\ ~requests[i].synced
               /\ ~PushSettlesFor(requests[i].id)
               /\ ~PullSucceeds) =>
                  /\ At(requests', requests[i].id) # {}
                  /\ \A j \in At(requests', requests[i].id) :
                        ~requests'[j].synced
      ]_vars

\* The stored record is still not synced after another record was created,
\* pushed and marked synced, and after an update.
C7_Witness ==
    /\ updates = 1
    /\ \E i \in At(requests, 100) : ~requests[i].synced
    /\ \E j \in At(requests, 1) : requests[j].synced

(***************************************************************************)
(* C8.  With no endpoint, no push and no pull is ever in flight, retrySync *)
(* and refreshFromSheet leave the collection as it is, and every record of *)
(* the collection is synced.                                               *)
(***************************************************************************)
C8_NoEndpointNoSync ==
    [][ SHEETS_ENDPOINT = "" =>
          /\ AllSynced(requests')
          /\ pushes' = EmptyBag
          /\ pulls' = 0
          /\ ((\E req \in Rendered : retrySync(req)) \/ refreshFromSheet) =>
                (requests' = requests /\ effectPending' = effectPending)
      ]_vars

\* With no endpoint, a pull was asked for over a collection of two records.
C8_Witness ==
    /\ SHEETS_ENDPOINT = ""
    /\ Len(requests) = 2
    /\ toast = << "Add SHEETS_ENDPOINT to enable refresh" >>

(***************************************************************************)
(* C9.  updateRequest(id, changes) merges the changes into the records     *)
(* with that id and changes nothing else: the length and order of the      *)
(* collection, every other record, and the target's fields that changes    *)
(* does not name are as before; with no record of that id the collection   *)
(* is as before.                                                           *)
(***************************************************************************)
C9_UpdateMergesInPlace ==
    [][ \A id \in UpdateIds, c \in ChangeSet :
          updateRequest(id, c) =>
              /\ Len(requests') = Len(requests)
              /\ \A i \in 1..Len(requests) :
                    IF requests[i].id = id
                    THEN /\ DOMAIN requests'[i] = DOMAIN requests[i] \cup DOMAIN c
                         /\ \A k \in DOMAIN c : requests'[i][k] = c[k]
                         /\ \A k \in DOMAIN requests[i] \ DOMAIN c :
                               requests'[i][k] = requests[i][k]
                    ELSE requests'[i] = requests[i]
              /\ id \notin Ids(requests) => requests' = requests
      ]_vars

\* The drawer's record was updated when the collection, replaced by a pull,
\* held no record of its id.
C9_Witness ==
    /\ updates = 1
    /\ nextId = 1
    /\ effectPending
    /\ toast = <<>>
    /\ Len(requests) = 1
    /\ selected # <<>>
    /\ selected[1].id \notin Ids(requests)
    /\ selected[1].status = "Done"

(***************************************************************************)
(* C10.  When the stored value is absent, empty, unparsable or no array,   *)
(* the mount effects leave the collection empty, set hydrated, and no      *)
(* exception escapes.                                                      *)
(***************************************************************************)
C10_LoadFallsBackToEmpty ==
    [][ (phase = "mount" /\ phase' # "mount" /\ storage.kind # "array") =>
          /\ requests' = <<>>
          /\ hydrated'
          /\ phase' = "ready"
      ]_vars

\* The store is hydrated and empty over a slot JSON.parse throws on.
C10_Witness ==
    /\ hydrated
    /\ phase = "ready"
    /\ requests = <<>>
    /\ storage.kind = "unparsable"

(***************************************************************************)
(* The list view: the filter and the sort behind the rendered cards.       *)
(***************************************************************************)
MaxLen == 3         \* records in a collection the list view is drawn over

\* String.prototype.toLowerCase on a sequence of characters.
toLowerCase(s) == [i \in 1..Len(s) |-> IF s[i] = "A" THEN "a" ELSE s[i]]

\* String.prototype.includes.
includes(s, t) ==
    \E i \in 0..(Len(s) - Len(t)) : SubSeq(s, i + 1, i + Len(t)) = t

priorityRank(p) ==
    CASE p = "Low" -> 0 [] p = "Normal" -> 1 [] p = "High" -> 2
      [] p = "Urgent" -> 3

\* A comparator with the two pinned tests left out.
compareByKeyOnly(a, b, key) ==
    CASE key = "oldest" -> a.createdAt - b.createdAt
      [] key = "due" ->
            IF Get(a, "dueDate") = Undefined /\ Get(b, "dueDate") = Undefined
            THEN 0
            ELSE IF Get(a, "dueDate") = Undefined THEN 1
            ELSE IF Get(b, "dueDate") = Undefined THEN -1
            ELSE a.dueDate - b.dueDate
      [] key = "priority" -> priorityRank(b.priority) - priorityRank(a.priority)
      [] OTHER -> b.createdAt - a.createdAt

\* The comparator of sortRequests: negative when a goes first, positive when
\* b does.  An absent due date counts as Infinity; Infinity - Infinity is NaN,
\* which sort treats as 0.
compare(a, b, key) ==
    IF a.pinned /\ ~b.pinned THEN -1
    ELSE IF b.pinned /\ ~a.pinned THEN 1
    ELSE CASE key = "oldest" -> a.createdAt - b.createdAt
           [] key = "due" ->
                 IF Get(a, "dueDate") = Undefined
                        /\ Get(b, "dueDate") = Undefined
                 THEN 0
                 ELSE IF Get(a, "dueDate") = Undefined THEN 1
                 ELSE IF Get(b, "dueDate") = Undefined THEN -1
                 ELSE a.dueDate - b.dueDate
           [] key = "priority" ->
                 priorityRank(b.priority) - priorityRank(a.priority)
           [] OTHER -> b.createdAt - a.createdAt

\* Array.prototype.sort is stable: a record goes before the first record
\* already placed that the comparator puts after it.
RECURSIVE Insert(_, _, _)
Insert(x, s, key) ==
    IF s = <<>> THEN << x >>
    ELSE IF compare(x, Head(s), key) < 0 THEN << x >> \o s
    ELSE << Head(s) >> \o Insert(x, Tail(s), key)

RECURSIVE sortRequests(_, _)
sortRequests(reqs, key) ==
    IF reqs = <<>> THEN <<>>
    ELSE Insert(reqs[Len(reqs)],
                sortRequests(SubSeq(reqs, 1, Len(reqs) - 1), key), key)

\* The filter callback of filtered.
matches(r, term) ==
    /\ \/ term = <<>>
       \/ includes(toLowerCase(r.name), term)
       \/ includes(toLowerCase(r.description), term)
    /\ statusFilter = "All" \/ r.status = statusFilter
    /\ priorityFilter = "All" \/ r.priority = priorityFilter

\* The records the cards are rendered from.
filtered ==
    LET term == trim(toLowerCase(search))
        keep(r) == matches(r, term)
    IN  sortRequests(SelectSeq(requests, keep), sort)

\* Records of earlier sessions, stored with no endpoint set.
ViewRow(id, createdAt, name, due, priority, status, pinned) ==
    Merge([id |-> id, createdAt |-> createdAt, name |-> name,
           description |-> <<"c">>, priority |-> priority, status |-> status,
           devNotes |-> "", pinned |-> pinned, synced |-> TRUE],
          IF due = Undefined THEN << >> ELSE [dueDate |-> due])
ViewRows ==
    { ViewRow(101, 1, <<"a">>, Undefined, "Normal", "New", FALSE),
      ViewRow(102, 2, <<"A", "b">>, 24, "Urgent", "New", TRUE),
      ViewRow(103, 3, <<"b">>, 48, "Low", "Done", FALSE),
      ViewRow(104, 3, <<"a">>, Undefined, "High", "New", FALSE) }

\* The collections the list view is drawn over: no id twice.
Collections ==
    { c \in UNION { [1..n -> ViewRows] : n \in 0..MaxLen } :
        \A i, j \in 1..Len(c) : c[i].id = c[j].id => i = j }

Searches == { <<>>, <<" ", "A">>, <<"b">> }
StatusFilters == {"All", "New", "Done"}
PriorityFilters == {"All", "Urgent"}
SortKeys == {"newest", "oldest", "due", "priority"}

\* The component some time after its mount, with no endpoint: the collection
\* was loaded and saved, the list controls are wherever the user left them.
InitQuery ==
    /\ SHEETS_ENDPOINT = ""
    /\ requests \in Collections
    /\ hydrated = TRUE
    /\ selected = <<>>
    /\ loadingSubmit = FALSE
    /\ storage = JSONstringify(requests)
    /\ phase = "ready"
    /\ effectPending = FALSE
    /\ wrote = TRUE
    /\ pushes = EmptyBag
    /\ pulls = 0
    /\ nextId = 1
    /\ updates = 0
    /\ toast = <<>>
    /\ search \in Searches
    /\ statusFilter \in StatusFilters
    /\ priorityFilter \in PriorityFilters
    /\ sort = "newest"
    /\ clock = 0
    /\ tzOffset = 0

\* The sort select is changed.
setSort(key) ==
    /\ Idle
    /\ sort # key
    /\ sort' = key
    /\ UNCHANGED << SHEETS_ENDPOINT, requests, hydrated, selected,
                    loadingSubmit, storage, phase, effectPending, wrote,
                    pushes, pulls, nextId, updates, toast, search,
                    statusFilter, priorityFilter, clock, tzOffset >>

\* The list view's operations: a card of the list is opened, the drawer's
\* pin box is ticked, the sort is changed.
NextQuery ==
    \/ \E i \in 1..Len(filtered) : selectRequest(filtered[i])
    \/ selected # <<>> /\ updateRequest(selected[1].id, [pinned |-> TRUE])
    \/ PersistEffectRun
    \/ \E key \in SortKeys : setSort(key)

SpecQuery == InitQuery /\ [][NextQuery]_vars

\* Every pinned record of a list precedes every unpinned one.
PinnedFirst(list) ==
    \A i, j \in 1..Len(list) : list[i].pinned /\ ~list[j].pinned => i < j

\* The record with this id is in the collection and another is newer.
NotNewest(id) ==
    \E i, j \in 1..Len(requests) :
        requests[i].id = id /\ requests[j].createdAt > requests[i].createdAt

\* The step pins the record the drawer shows, under sort = newest.
PinsUnderNewest(id) ==
    /\ selected # <<>> /\ selected[1].id = id
    /\ sort = "newest"
    /\ NotNewest(id)
    /\ updateRequest(id, [pinned |-> TRUE])

(***************************************************************************)
(* C11 as stated.  The list puts every pinned record before every unpinned *)
(* one, and pinning a record that is not the newest puts it at the front   *)
(* of the list under sort = newest.                                        *)
(***************************************************************************)
C11_PinnedRecordAtFront ==
    [][\A id \in Ids(selected) :
          PinsUnderNewest(id)
              => /\ PinnedFirst(filtered')
                 /\ Len(filtered') > 0
                 /\ filtered'[1].id = id]_vars

(***************************************************************************)
(* C11.  For every collection, filter and sort key the list puts every     *)
(* pinned record before every unpinned one.  A record pinned from the      *)
(* drawer that the filter lets through therefore precedes every unpinned   *)
(* record of the list, and is at its front when no other pinned record is  *)
(* in the list.                                                            *)
(***************************************************************************)
C11_PinnedFirst ==
    /\ PinnedFirst(filtered)
    /\ \A i \in 1..Len(filtered) :
           (/\ selected # <<>>
            /\ selected[1].pinned
            /\ filtered[i].id = selected[1].id)
               => /\ filtered[i].pinned
                  /\ \A j \in 1..Len(filtered) : ~filtered[j].pinned => i < j
                  /\ (\A j \in 1..Len(filtered) :
                          filtered[j].pinned => j = i) => i = 1

\* The record created second of three was pinned from the drawer and heads
\* the list under sort = newest, an unpinned newer record behind it.
C11_Witness ==
    /\ sort = "newest"
    /\ updates = 1
    /\ selected # <<>> /\ selected[1].pinned
    /\ Len(filtered) >= 2
    /\ filtered[1].id = selected[1].id
    /\ filtered[1].id = 101
    /\ \E j \in 2..Len(filtered) :
           ~filtered[j].pinned /\ filtered[j].createdAt > filtered[1].createdAt

(***************************************************************************)
(* Triage: the overdue and due-today buckets of the header.                *)
(***************************************************************************)
MaxClock == 120     \* the latest instant of the wall clock, in hours
DaysPerMonth == 2   \* days in a month of the model's calendar
MonthsPerYear == 2  \* months in a year of the model's calendar

\* A dueDate string Date cannot parse: getTime() is NaN.
InvalidDate == Undefined - 1

\* The local calendar fields of an instant: the day count in local time,
\* split into year, month and day of the month.
LocalDay(t) == (t + tzOffset) \div 24
getFullYear(t) == LocalDay(t) \div (DaysPerMonth * MonthsPerYear)
getMonth(t) == (LocalDay(t) \div DaysPerMonth) % MonthsPerYear
getDate(t) == (LocalDay(t) % DaysPerMonth) + 1

\* today = new Date(); today.setHours(0, 0, 0, 0): local midnight, as an
\* instant.
today == LocalDay(clock) * 24 - tzOffset

\* An isToday that compares the day of the month only.
isTodayByDateOnly(iso) ==
    IF iso = Undefined THEN FALSE
    ELSE iso # InvalidDate /\ getDate(iso) = getDate(today)

isToday(iso) ==
    IF iso = Undefined THEN FALSE
    ELSE /\ iso # InvalidDate
         /\ getFullYear(iso) = getFullYear(today)
         /\ getMonth(iso) = getMonth(today)
         /\ getDate(iso) = getDate(today)

\* The filter callback of overdue.
isOverdue(r) ==
    IF Get(r, "dueDate") = Undefined THEN FALSE
    ELSE r.dueDate # InvalidDate /\ r.dueDate < today /\ r.status # "Done"

isDueToday(r) == isToday(Get(r, "dueDate"))

triageBuckets(reqs) ==
    [overdue |-> SelectSeq(reqs, isOverdue),
     dueToday |-> SelectSeq(reqs, isDueToday)]

\* Records with no due date, one Date cannot parse, the UTC midnights the
\* date input yields, and an instant within a day that another client set.
TriageRows ==
    { ViewRow(101, 1, <<"a">>, Undefined, "Normal", "New", FALSE),
      ViewRow(102, 1, <<"a">>, InvalidDate, "Normal", "New", FALSE),
      ViewRow(103, 1, <<"a">>, 48, "Normal", "New", FALSE),
      ViewRow(104, 1, <<"a">>, 60, "Normal", "In Progress", FALSE),
      ViewRow(105, 1, <<"a">>, 96, "Normal", "New", FALSE) }

TriageCollections ==
    { c \in UNION { [1..n -> TriageRows] : n \in 0..MaxLen } :
        \A i, j \in 1..Len(c) : c[i].id = c[j].id => i = j }

\* Browsers west of, at and east of Greenwich.
TzOffsets == { -5, 0, 9 }

\* The component some time after its mount, with no endpoint, on the first
\* day of the model's clock.
InitTriage ==
    /\ SHEETS_ENDPOINT = ""
    /\ requests \in TriageCollections
    /\ hydrated = TRUE
    /\ selected = <<>>
    /\ loadingSubmit = FALSE
    /\ storage = JSONstringify(requests)
    /\ phase = "ready"
    /\ effectPending = FALSE
    /\ wrote = TRUE
    /\ pushes = EmptyBag
    /\ pulls = 0
    /\ nextId = 1
    /\ updates = 0
    /\ toast = <<>>
    /\ search = <<>>
    /\ statusFilter = "All"
    /\ priorityFilter = "All"
    /\ sort = "newest"
    /\ clock = 24
    /\ tzOffset \in TzOffsets

\* An hour passes.
Tick ==
    /\ clock < MaxClock
    /\ clock' = clock + 1
    /\ UNCHANGED << SHEETS_ENDPOINT, requests, hydrated, selected,
                    loadingSubmit, storage, phase, effectPending, wrote,
                    pushes, pulls, nextId, updates, toast, search,
                    statusFilter, priorityFilter, sort, tzOffset >>

\* Time passes and cards are marked Done.
NextTriage ==
    \/ Tick
    \/ \E id \in Ids(requests) : updateRequest(id, [status |-> "Done"])
    \/ PersistEffectRun

SpecTriage == InitTriage /\ [][NextTriage]_vars

(***************************************************************************)
(* C12.  For every collection and every current date, no record is in both *)
(* buckets; a record in overdue has a due date strictly before the start   *)
(* of the current local day and is not Done; a record in dueToday has a    *)
(* due date within the current local day.                                  *)
(***************************************************************************)
C12_TriageBuckets ==
    LET t == triageBuckets(requests)
        start == ((clock + tzOffset) \div 24) * 24 - tzOffset
    IN  /\ \A i \in 1..Len(t.overdue), j \in 1..Len(t.dueToday) :
               t.overdue[i].id # t.dueToday[j].id
        /\ \A i \in 1..Len(t.overdue) :
               /\ "dueDate" \in DOMAIN t.overdue[i]
               /\ t.overdue[i].dueDate >= 0
               /\ t.overdue[i].dueDate < start
               /\ t.overdue[i].status # "Done"
        /\ \A j \in 1..Len(t.dueToday) :
               /\ "dueDate" \in DOMAIN t.dueToday[j]
               /\ t.dueToday[j].dueDate >= start
               /\ t.dueToday[j].dueDate < start + 24

\* West of Greenwich, on a day of a later month than the first: one record
\* is overdue, another is due today, and a third, marked Done, is past its
\* due date and in neither bucket.
C12_Witness ==
    LET t == triageBuckets(requests)
    IN  /\ tzOffset < 0
        /\ getMonth(clock) # getMonth(24) \/ getFullYear(clock) # getFullYear(24)
        /\ Len(t.overdue) = 1
        /\ Len(t.dueToday) = 1
        /\ \E i \in 1..Len(requests) :
               /\ requests[i].status = "Done"
               /\ Get(requests[i], "dueDate") >= 0
               /\ requests[i].dueDate < today

(***************************************************************************)
(* C13.  The completion of a push, whether it succeeds or fails and        *)
(* whether it comes from a create or a retry, changes nothing but the      *)
(* synced field of the records with the pushed id: their other fields keep *)
(* what the edits made while the push was in flight gave them, every other *)
(* record is as it was, and when no record has the id any more the         *)
(* collection is left as it was and the component goes on running.         *)
(***************************************************************************)
C13_CompletionTouchesOnlySynced ==
    [][\A p \in BagToSet(pushes), o \in PushOutcomes :
          (submitSettled(p, o) \/ retrySettled(p, o))
              => /\ Len(requests') = Len(requests)
                 /\ \A i \in 1..Len(requests) :
                        IF requests[i].id = p.id
                        THEN \E v \in BOOLEAN :
                                 SameButSynced(requests'[i], requests[i], v)
                        ELSE requests'[i] = requests[i]
                 /\ At(requests, p.id) = {} => requests' = requests
                 /\ phase' = "ready"]_vars

\* The record created here was marked Done while its push was in flight; the
\* push then failed, and the record is Done and unsynced.
C13_Witness ==
    /\ toast = << "Failed to sync. You can retry." >>
    /\ updates = 1
    /\ \E i \in At(requests, 1) :
           requests[i].status = "Done" /\ ~requests[i].synced

(***************************************************************************)
(* Liveness.  React runs the passive effects of every commit: the effects  *)
(* of the first commit and the persist effect of each later one are taken  *)
(* once they are due.  Handlers and settlements are not forced to happen.  *)
(***************************************************************************)
SpecLive ==
    Spec /\ WF_vars(MountEffects) /\ WF_vars(PersistEffectRun)

(***************************************************************************)
(* C14.  Once the store is hydrated, every state of the collection that    *)
(* lasts is eventually the one held in the slot: from any hydrated state   *)
(* the slot comes to hold the collection current at that later time, so    *)
(* when mutations stop the slot holds the last collection, and no earlier  *)
(* snapshot is left in the slot over a later one.                          *)
(***************************************************************************)
C14_EventuallyPersisted ==
    hydrated ~> (~effectPending /\ storage = JSONstringify(requests))

\* A create and an update have both happened, their effects have run, and
\* the slot holds the collection with both in it.
C14_Witness ==
    /\ hydrated /\ ~effectPending
    /\ nextId = 2 /\ updates = 1
    /\ \E i \in At(requests, 1) : requests[i].status = "Done"
    /\ storage = JSONstringify(requests)

(***************************************************************************)
(* C15 as stated.  In every reachable state, whatever loads, creates,      *)
(* updates, push completions, retries and pulls led to it, no two records  *)
(* of the collection have the same id.                                     *)
(***************************************************************************)
C15_UniqueIds ==
    \A i, j \in 1..Len(requests) : requests[i].id = requests[j].id => i = j

(***************************************************************************)
(* C16 as stated.  Whenever the drawer is open and a record with the id    *)
(* of the drawer's record is in the collection, the drawer's copy and that *)
(* record agree on every field.                                            *)
(***************************************************************************)
C16_DrawerAgrees ==
    selected # <<>>
        => \A i \in At(requests, selected[1].id) : requests[i] = selected[1]

====
